---------------------------- MODULE Spec2Model ----------------------------
(***************************************************************************)
(* A model of github-ci-status: the resolution of the hosted project from  *)
(* the local git configuration (lib/github-utils.js) and the aggregation   *)
(* of the commit statuses and check runs into one state and one exit code  *)
(* (index.js).                                                             *)
(*                                                                         *)
(* A JavaScript string is a sequence of one-character strings, so that     *)
(* the regular expression, split(), endsWith(), slice() and the string     *)
(* comparison of the source are modelled by what they do.  A value that    *)
(* may be undefined is a sequence of length at most one: << >> is          *)
(* undefined and <<v>> is the value v.                                     *)
(***************************************************************************)
EXTENDS Integers, Sequences, FiniteSets, TLC

VARIABLES
  gitHubHostEnv,  \* process.env.GITHUB_HOST, read when github-utils.js loads
  repoConfig,     \* the local git configuration getConfig('local') reads
  branchP,        \* the promise of tryGetBranch()
  configP,        \* the promise of getConfig('local')
  projectP,       \* the promise getProjectName() returns
  options,        \* the options githubCiStatus(ref, options) is called with
  server,         \* the two feeds of the commit as the forge holds them now
  now,            \* Date.now(), in ticks
  commitP,        \* the promise of resolveCommit(ref)
  ciP,            \* the promise githubCiStatus() returns
  statusOptions,  \* the options githubCiStatus passes to fetchCiStatus
  fetchPc,        \* where fetchCiStatus is: idle, fetching, sleeping, done
  fetchP,         \* the promise fetchCiStatus() returns
  statusReq,      \* the request of the commit-status feed: none, inflight, done
  checksReq,      \* the request of the check-run feed: none, inflight, done
  combinedStatus, \* the last response of the commit-status feed
  checksList,     \* the last response of the check-run feed
  fetchCount,     \* the pairs of requests fetchCiStatus has issued
  startTime,      \* Date.now() when fetchCiStatus was called
  statuses,       \* const statuses of githubCiStatus
  stdout,         \* what was written to options.stdout
  stderr          \* the number of lines written to options.stderr

projectVars == <<gitHubHostEnv, repoConfig, branchP, configP, projectP>>

fetchVars ==
  <<statusOptions, fetchPc, fetchP, statusReq, checksReq, combinedStatus,
    checksList, fetchCount, startTime>>

ciVars == <<options, commitP, ciP, statuses, stdout, stderr>>

vars ==
  <<gitHubHostEnv, repoConfig, branchP, configP, projectP, options, server,
    now, commitP, ciP, statusOptions, fetchPc, fetchP, statusReq, checksReq,
    combinedStatus, checksList, fetchCount, startTime, statuses, stdout,
    stderr>>

----------------------------------------------------------------------------
(* Strings                                                                 *)

S_remote_dot == <<"r", "e", "m", "o", "t", "e", ".">>  \* "remote."
S_dot_url == <<".", "u", "r", "l">>  \* ".url"
S_dot_pushurl == <<".", "p", "u", "s", "h", "u", "r", "l">>  \* ".pushurl"
S_url == <<"u", "r", "l">>  \* "url"
S_pushurl == <<"p", "u", "s", "h", "u", "r", "l">>  \* "pushurl"
S_fetch == <<"f", "e", "t", "c", "h">>  \* "fetch"
S_branch_dot == <<"b", "r", "a", "n", "c", "h", ".">>  \* "branch."
S_dot_remote == <<".", "r", "e", "m", "o", "t", "e">>  \* ".remote"
S_upstream == <<"u", "p", "s", "t", "r", "e", "a", "m">>  \* "upstream"
S_github == <<"g", "i", "t", "h", "u", "b">>  \* "github"
S_origin == <<"o", "r", "i", "g", "i", "n">>  \* "origin"
S_aremote == <<"a", "r", "e", "m", "o", "t", "e">>  \* "aremote"
S_remote1 == <<"r", "e", "m", "o", "t", "e", "1">>  \* "remote1"
S_zzz == <<"z", "z", "z">>  \* "zzz"
S_main == <<"m", "a", "i", "n">>  \* "main"
S_dev == <<"d", "e", "v">>  \* "dev"
S_github_com == <<"g", "i", "t", "h", "u", "b", ".", "c", "o", "m">>  \* "github.com"
S_dot_github_com == <<".", "g", "i", "t", "h", "u", "b", ".", "c", "o", "m">>  \* ".github.com"
S_example_github_com == <<"e", "x", "a", "m", "p", "l", "e", ".", "g", "i", "t", "h", "u", "b", ".", "c", "o", "m">>  \* "example.github.com"
S_github_com_example_com == <<"g", "i", "t", "h", "u", "b", ".", "c", "o", "m", ".", "e", "x", "a", "m", "p", "l", "e", ".", "c", "o", "m">>  \* "github.com.example.com"
S_xgithub_com == <<"x", "g", "i", "t", "h", "u", "b", ".", "c", "o", "m">>  \* "xgithub.com"
S_ghe_corp == <<"g", "h", "e", ".", "c", "o", "r", "p">>  \* "ghe.corp"
S_dot_git == <<".", "g", "i", "t">>  \* ".git"
S_https == <<"h", "t", "t", "p", "s", ":", "/", "/">>  \* "https://"
S_git_at == <<"g", "i", "t", "@">>  \* "git@"
S_foo == <<"f", "o", "o">>  \* "foo"
S_bar == <<"b", "a", "r">>  \* "bar"
S_baz == <<"b", "a", "z">>  \* "baz"
S_bad_invalid == <<"b", "a", "d", "_", ":", "i", "n", "v", "a", "l", "i", "d">>  \* "bad_:invalid"
S_core_bare == <<"c", "o", "r", "e", ".", "b", "a", "r", "e">>  \* "core.bare"
S_remote_pushdefault == <<"r", "e", "m", "o", "t", "e", ".", "p", "u", "s", "h", "d", "e", "f", "a", "u", "l", "t">>  \* "remote.pushdefault"

Undefined == << >>

Some(v) == <<v>>

\* The characters of code units 45 ('-') to 90 ('Z'), in code-unit order.
CharsFromHyphen ==
  <<"-", ".", "/", "0", "1", "2", "3", "4", "5", "6", "7", "8", "9", ":", ";",
    "<", "=", ">", "?", "@", "A", "B", "C", "D", "E", "F", "G", "H", "I", "J",
    "K", "L", "M", "N", "O", "P", "Q", "R", "S", "T", "U", "V", "W", "X", "Y",
    "Z">>

\* The characters of code units 97 ('a') to 122 ('z'), in code-unit order.
CharsFromLowerA ==
  <<"a", "b", "c", "d", "e", "f", "g", "h", "i", "j", "k", "l", "m", "n", "o",
    "p", "q", "r", "s", "t", "u", "v", "w", "x", "y", "z">>

\* The UTF-16 code unit of a character of the two ranges, or of '_'.
CodeUnit(c) ==
  IF \E i \in 1..Len(CharsFromLowerA) : CharsFromLowerA[i] = c
    THEN 96 + (CHOOSE i \in 1..Len(CharsFromLowerA) : CharsFromLowerA[i] = c)
  ELSE IF c = "_" THEN 95
  ELSE 44 + (CHOOSE i \in 1..Len(CharsFromHyphen) : CharsFromHyphen[i] = c)

\* String.prototype.startsWith
StartsWith(s, p) ==
  /\ Len(s) >= Len(p)
  /\ SubSeq(s, 1, Len(p)) = p

\* String.prototype.endsWith
EndsWith(s, p) ==
  /\ Len(s) >= Len(p)
  /\ SubSeq(s, Len(s) - Len(p) + 1, Len(s)) = p

\* The JavaScript comparison s < t of two strings: by code units, a proper
\* prefix being smaller.
StrLess(s, t) ==
  \E i \in 1..(Len(t)) :
    /\ i - 1 <= Len(s)
    /\ SubSeq(s, 1, i - 1) = SubSeq(t, 1, i - 1)
    /\ \/ i = Len(s) + 1
       \/ i <= Len(s) /\ CodeUnit(s[i]) < CodeUnit(t[i])

\* Array.prototype.indexOf: the 0-based index of the first x, or -1.
IndexOf(seq, x) ==
  IF \E i \in 1..Len(seq) : seq[i] = x
    THEN (CHOOSE i \in 1..Len(seq) :
            seq[i] = x /\ \A j \in 1..(i - 1) : seq[j] # x) - 1
    ELSE -1

\* String.prototype.split on a one-character separator.
RECURSIVE Split(_, _)
Split(s, sep) ==
  IF \E i \in 1..Len(s) : s[i] = sep
    THEN LET i == CHOOSE k \in 1..Len(s) :
                    s[k] = sep /\ \A j \in 1..(k - 1) : s[j] # sep
         IN  <<SubSeq(s, 1, i - 1)>> \o Split(SubSeq(s, i + 1, Len(s)), sep)
    ELSE <<s>>

----------------------------------------------------------------------------
(* lib/github-utils.js                                                     *)

originNamesInLookupOrder == <<S_upstream, S_github, S_origin>>

\* The line terminators, which "." of a regular expression without the s
\* flag does not match: LF, CR, and U+2028 and U+2029, which "LS" and "PS"
\* stand for.
LineTerminators == {"\n", "\r", "LS", "PS"}

\* /^remote\.(.*)\.((?:push)?url)$/.exec(key), as the remote {name, isPush}
\* or undefined.  A key ending in ".pushurl" does not end in ".url", so one
\* alternative applies at most, and (.*) is what lies between "remote." and
\* it, which must hold no line terminator.
RemoteKeyMatch(key) ==
  LET NameBefore(suffix) ==
        SubSeq(key, Len(S_remote_dot) + 1, Len(key) - Len(suffix))
      Matches(suffix) ==
        /\ StartsWith(key, S_remote_dot)
        /\ EndsWith(key, suffix)
        /\ Len(key) >= Len(S_remote_dot) + Len(suffix)
        /\ \A i \in 1..Len(NameBefore(suffix)) :
             NameBefore(suffix)[i] \notin LineTerminators
  IN  IF Matches(S_dot_pushurl)
        THEN Some([name |-> NameBefore(S_dot_pushurl), isPush |-> TRUE])
      ELSE IF Matches(S_dot_url)
        THEN Some([name |-> NameBefore(S_dot_url), isPush |-> FALSE])
      ELSE Undefined

\* Object.entries(config).map(...).filter(Boolean): the remotes of the
\* config, in the order of its entries.
RECURSIVE ConfigRemotes(_)
ConfigRemotes(config) ==
  IF config = << >> THEN << >>
  ELSE LET match == RemoteKeyMatch(config[1].key)
           rest == ConfigRemotes(Tail(config))
       IN  IF match = Undefined THEN rest
           ELSE <<[name |-> match[1].name,
                   isPush |-> match[1].isPush,
                   url |-> config[1].value]>> \o rest

\* if (isBranch1 !== isBranch2) return isBranch1 ? -1 : 1;
\* 0 stands for falling through to the next test.
CompareByBranch(name1, name2, branchRemote) ==
  LET isBranch1 == branchRemote = Some(name1)
      isBranch2 == branchRemote = Some(name2)
  IN  IF isBranch1 # isBranch2
        THEN (IF isBranch1 THEN -1 ELSE 1)
        ELSE 0

\* A plausible slip: the preference list in the opposite order.
CompareByKnownNameReversed(name1, name2) ==
  LET order1 == IndexOf(originNamesInLookupOrder, name1)
      order2 == IndexOf(originNamesInLookupOrder, name2)
  IN  IF order1 # order2
        THEN (IF order1 = -1 THEN 1
              ELSE IF order2 = -1 THEN -1
              ELSE order2 - order1)
        ELSE 0

\* if (order1 !== order2) return order1 === -1 ? 1
\*   : order2 === -1 ? -1 : order1 - order2;
CompareByKnownName(name1, name2) ==
  LET order1 == IndexOf(originNamesInLookupOrder, name1)
      order2 == IndexOf(originNamesInLookupOrder, name2)
  IN  IF order1 # order2
        THEN (IF order1 = -1 THEN 1
              ELSE IF order2 = -1 THEN -1
              ELSE order1 - order2)
        ELSE 0

\* A plausible slip: the comparison of the names the other way round.
CompareByNameDescending(name1, name2) ==
  IF name1 # name2
    THEN (IF StrLess(name2, name1) THEN -1 ELSE 1)
    ELSE 0

\* if (name1 !== name2) return name1 < name2 ? -1 : 1;
CompareByName(name1, name2) ==
  IF name1 # name2
    THEN (IF StrLess(name1, name2) THEN -1 ELSE 1)
    ELSE 0

\* A plausible slip: remote1.isPush is compared with itself, so that the
\* test never succeeds.
CompareByPushOfItself(remote1, remote2) ==
  IF remote1.isPush # remote1.isPush
    THEN (IF remote1.isPush THEN -1 ELSE 1)
    ELSE 0

\* A plausible slip: the fetch URL first.
CompareByPushLast(remote1, remote2) ==
  IF remote1.isPush # remote2.isPush
    THEN (IF remote1.isPush THEN 1 ELSE -1)
    ELSE 0

\* if (remote1.isPush !== remote2.isPush) return remote1.isPush ? -1 : 1;
CompareByPush(remote1, remote2) ==
  IF remote1.isPush # remote2.isPush
    THEN (IF remote1.isPush THEN -1 ELSE 1)
    ELSE 0

\* The comparator of remotes.sort(): what it returns, or that it throws.
compareRemotes(remote1, remote2, branchRemote) ==
  LET name1 == remote1.name
      name2 == remote2.name
      byBranch == CompareByBranch(name1, name2, branchRemote)
      byKnownName == CompareByKnownName(name1, name2)
      byName == CompareByName(name1, name2)
      byPush == CompareByPush(remote1, remote2)
  IN  IF byBranch # 0 THEN [threw |-> FALSE, ret |-> byBranch]
      ELSE IF byKnownName # 0 THEN [threw |-> FALSE, ret |-> byKnownName]
      ELSE IF byName # 0 THEN [threw |-> FALSE, ret |-> byName]
      ELSE IF byPush # 0 THEN [threw |-> FALSE, ret |-> byPush]
      ELSE [threw |-> TRUE, ret |-> 0]

\* One insertion of Array.prototype.sort: remote goes after the last element
\* of the sorted prefix that the comparator does not put after it.
RECURSIVE SortInsert(_, _, _)
SortInsert(sorted, remote, branchRemote) ==
  IF sorted = << >> THEN <<remote>>
  ELSE IF compareRemotes(sorted[Len(sorted)], remote, branchRemote).ret > 0
    THEN Append(SortInsert(SubSeq(sorted, 1, Len(sorted) - 1), remote,
                           branchRemote),
                sorted[Len(sorted)])
  ELSE Append(sorted, remote)

\* remotes.sort(comparator), for a comparator that does not throw.
RECURSIVE SortRemotes(_, _)
SortRemotes(remotes, branchRemote) ==
  IF remotes = << >> THEN << >>
  ELSE SortInsert(SortRemotes(SubSeq(remotes, 1, Len(remotes) - 1),
                              branchRemote),
                  remotes[Len(remotes)], branchRemote)

\* Whether remotes.sort() throws: a sort compares every two elements that
\* its result puts side by side, and two elements the comparator throws on
\* are side by side in every order the others agree with.
SortThrows(remotes, branchRemote) ==
  \E i, j \in 1..Len(remotes) :
    i < j /\ compareRemotes(remotes[i], remotes[j], branchRemote).threw

\* getRemoteUrls(config, branchRemote): the URLs in trial order, or threw.
getRemoteUrls(config, branchRemote) ==
  LET remotes == ConfigRemotes(config)
  IN  IF SortThrows(remotes, branchRemote)
        THEN [threw |-> TRUE, urls |-> << >>]
        ELSE LET sorted == SortRemotes(remotes, branchRemote)
             IN  [threw |-> FALSE,
                  urls |-> [i \in 1..Len(sorted) |-> sorted[i].url]]

\* The first index of character c in s, or Len(s) + 1.
FirstIndex(s, c) ==
  IF \E i \in 1..Len(s) : s[i] = c
    THEN CHOOSE i \in 1..Len(s) : s[i] = c /\ \A j \in 1..(i - 1) : s[j] # c
    ELSE Len(s) + 1

\* parseGitUrl(remoteUrl) of lib/git-utils.js: {hostname, pathname} of an
\* https URL or of the scp-like user@host:path, and a throw for the rest.
parseGitUrl(remoteUrl) ==
  IF StartsWith(remoteUrl, S_https)
    THEN LET rest == SubSeq(remoteUrl, Len(S_https) + 1, Len(remoteUrl))
             slash == FirstIndex(rest, "/")
         IN  [threw |-> slash = 1,
              hostname |-> SubSeq(rest, 1, slash - 1),
              pathname |-> IF slash > Len(rest) THEN <<"/">>
                           ELSE SubSeq(rest, slash, Len(rest))]
  ELSE LET at == FirstIndex(remoteUrl, "@")
           colon == FirstIndex(remoteUrl, ":")
           slash == FirstIndex(remoteUrl, "/")
       IN  IF 1 < at /\ at + 1 < colon /\ colon < slash
                /\ colon <= Len(remoteUrl)
             THEN [threw |-> FALSE,
                   hostname |-> SubSeq(remoteUrl, at + 1, colon - 1),
                   pathname |-> <<"/">> \o SubSeq(remoteUrl, colon + 1,
                                                  Len(remoteUrl))]
             ELSE [threw |-> TRUE, hostname |-> << >>, pathname |-> << >>]

\* A plausible slip: the suffix test without its leading dot.
IsGitHubHostAnySuffix(hostname, hostEnv) ==
  \/ hostname = S_github_com
  \/ Some(hostname) = hostEnv
  \/ EndsWith(hostname, S_github_com)

\* The test of getGitHubUrls on the hostname of a parsed URL.
IsGitHubHost(hostname, hostEnv) ==
  \/ hostname = S_github_com
  \/ Some(hostname) = hostEnv
  \/ EndsWith(hostname, S_dot_github_com)

\* A plausible slip: a URL that does not parse or is of another host ends
\* the walk over the URLs instead of being left out.
RECURSIVE GitHubUrlsOfUntilInvalid(_, _)
GitHubUrlsOfUntilInvalid(urls, hostEnv) ==
  IF urls = << >> THEN << >>
  ELSE LET parsed == parseGitUrl(urls[1])
       IN  IF ~parsed.threw /\ IsGitHubHost(parsed.hostname, hostEnv)
             THEN <<[hostname |-> parsed.hostname,
                     pathname |-> parsed.pathname]>>
                  \o GitHubUrlsOfUntilInvalid(Tail(urls), hostEnv)
             ELSE << >>

\* .map(...).filter(Boolean) of getGitHubUrls over the URLs in trial order.
RECURSIVE GitHubUrlsOf(_, _)
GitHubUrlsOf(urls, hostEnv) ==
  IF urls = << >> THEN << >>
  ELSE LET parsed == parseGitUrl(urls[1])
           rest == GitHubUrlsOf(Tail(urls), hostEnv)
       IN  IF ~parsed.threw /\ IsGitHubHost(parsed.hostname, hostEnv)
             THEN <<[hostname |-> parsed.hostname,
                     pathname |-> parsed.pathname]>> \o rest
             ELSE rest

\* getGitHubUrls(config, branchRemote).  The Set holds objects, which are
\* all distinct, so it keeps every parsed URL, in insertion order.
getGitHubUrls(config, branchRemote, hostEnv) ==
  LET remoteUrls == getRemoteUrls(config, branchRemote)
  IN  [threw |-> remoteUrls.threw,
       urls |-> GitHubUrlsOf(remoteUrls.urls, hostEnv)]

\* config[key] of the object getConfig() resolves to.
ConfigGet(config, key) ==
  IF \E i \in 1..Len(config) : config[i].key = key
    THEN Some(config[CHOOSE i \in 1..Len(config) : config[i].key = key].value)
    ELSE Undefined

\* branch && config[`branch.${branch}.remote`]
BranchRemoteOf(branch, config) ==
  IF branch = Undefined \/ branch = Some(<< >>) THEN branch
  ELSE ConfigGet(config, S_branch_dot \o branch[1] \o S_dot_remote)

\* A plausible slip: no test of the repo name that is left without ".git".
ProjectOfUrlNoEmptyRepoTest(remoteUrl) ==
  LET pathParts == Split(remoteUrl.pathname, "/")
  IN  IF \/ Len(pathParts) # 3
         \/ pathParts[1] # << >>
         \/ pathParts[2] = << >>
         \/ pathParts[3] = << >>
        THEN Undefined
      ELSE LET repo == IF EndsWith(pathParts[3], S_dot_git)
                         THEN SubSeq(pathParts[3], 1, Len(pathParts[3]) - 4)
                         ELSE pathParts[3]
           IN  Some(<<pathParts[2], repo>>)

\* The body of the loop of getProjectName for one parsed URL: the project
\* [owner, repo] it returns, or undefined when the URL is skipped.
ProjectOfUrl(remoteUrl) ==
  LET pathParts == Split(remoteUrl.pathname, "/")
  IN  IF \/ Len(pathParts) # 3
         \/ pathParts[1] # << >>
         \/ pathParts[2] = << >>
         \/ pathParts[3] = << >>
        THEN Undefined
      ELSE LET repo == IF EndsWith(pathParts[3], S_dot_git)
                         THEN SubSeq(pathParts[3], 1, Len(pathParts[3]) - 4)
                         ELSE pathParts[3]
           IN  IF repo = << >> THEN Undefined
               ELSE Some(<<pathParts[2], repo>>)

\* The error getProjectName throws when no URL gives a project.
NoProjectError ==
  [state |-> "rejected", name |-> "Error",
   message |-> "Unable to determine GitHub project name",
   value |-> << >>]

\* The error the comparator of getRemoteUrls throws.
DuplicateConfigError ==
  [state |-> "rejected", name |-> "Error", message |-> "Duplicate config",
   value |-> << >>]

\* The error a failed getConfig() rejects with.
ConfigReadError ==
  [state |-> "rejected", name |-> "Error", message |-> "git config failed",
   value |-> << >>]

\* for (const remoteUrl of ...) { ... return [owner, repo]; } throw ...
RECURSIVE FirstProject(_)
FirstProject(gitHubUrls) ==
  IF gitHubUrls = << >> THEN NoProjectError
  ELSE LET project == ProjectOfUrl(gitHubUrls[1])
       IN  IF project # Undefined
             THEN [state |-> "fulfilled", name |-> "", message |-> "",
                   value |-> project[1]]
             ELSE FirstProject(Tail(gitHubUrls))

\* getProjectName() after its await: from the branch and the config to the
\* settled promise.
ResolveProject(branch, config, hostEnv) ==
  LET branchRemote == BranchRemoteOf(branch, config)
      gitHubUrls == getGitHubUrls(config, branchRemote, hostEnv)
  IN  IF gitHubUrls.threw THEN DuplicateConfigError
      ELSE FirstProject(gitHubUrls.urls)

----------------------------------------------------------------------------
(* The configurations and environments explored                           *)

\* The most remote-url entries of a configuration.
MaxRemotes == 3

RemoteKey(name, kind) == S_remote_dot \o name \o <<".">> \o kind

HttpsUrl(host, path) == S_https \o host \o path

ScpUrl(host, path) == S_git_at \o host \o <<":">> \o path

ProjectPath(owner, repo) == <<"/">> \o owner \o <<"/">> \o repo

RemoteNames == {S_upstream, S_github, S_origin, S_aremote, S_remote1}

\* One entry for each remote name and kind, whose URL names the project
\* <name>/<kind>: https://github.com/<name>/<kind>.git
OrderEntries ==
  {[key |-> RemoteKey(n, k),
    value |-> HttpsUrl(S_github_com, ProjectPath(n, k \o S_dot_git))] :
     n \in RemoteNames, k \in {S_url, S_pushurl}}

\* The URLs whose host and path shape vary.
ShapeUrls ==
  { HttpsUrl(S_github_com, ProjectPath(S_foo, S_bar \o S_dot_git)),
    HttpsUrl(S_github_com, ProjectPath(S_foo, S_bar)),
    ScpUrl(S_github_com, S_foo \o <<"/">> \o S_baz \o S_dot_git),
    HttpsUrl(S_example_github_com, ProjectPath(S_foo, S_bar \o S_dot_git)),
    HttpsUrl(S_ghe_corp, ProjectPath(S_bar, S_baz)),
    HttpsUrl(S_github_com_example_com, ProjectPath(S_foo, S_bar \o S_dot_git)),
    HttpsUrl(S_xgithub_com, ProjectPath(S_foo, S_bar)),
    HttpsUrl(S_github_com, <<"/">> \o S_foo \o S_dot_git),
    HttpsUrl(S_github_com, <<"/">> \o S_foo),
    HttpsUrl(S_github_com, ProjectPath(S_foo, S_bar) \o <<"/">> \o S_baz \o S_dot_git),
    HttpsUrl(S_github_com, ProjectPath(S_foo, << >>)),
    HttpsUrl(S_github_com, ProjectPath(S_foo, S_dot_git)),
    HttpsUrl(S_github_com, ProjectPath(<< >>, S_bar)),
    HttpsUrl(S_github_com, ProjectPath(S_foo, S_bar \o S_dot_git \o S_dot_git)),
    HttpsUrl(S_github_com, << >>),
    S_bad_invalid }

ShapeEntries ==
  {[key |-> RemoteKey(n, S_url), value |-> u] :
     n \in {S_origin, S_aremote}, u \in ShapeUrls}

\* Entries whose key is no remote-url key, with a value that would name a
\* project: among them keys whose remote name holds a line terminator; and
\* one entry whose remote name is empty.
OtherEntries ==
  {[key |-> k, value |-> HttpsUrl(S_github_com, ProjectPath(S_bar, S_baz))] :
     k \in {S_core_bare, S_remote_pushdefault,
            RemoteKey(S_origin, S_fetch),
            <<"x">> \o RemoteKey(S_origin, S_url),
            RemoteKey(S_origin, S_url) \o <<"s">>,
            S_remote_dot \o S_url,
            RemoteKey(<<"a", "\r", "b">>, S_url),
            RemoteKey(<<"a", "\n">>, S_pushurl),
            RemoteKey(<< >>, S_url)}}

\* The entries branch.main.remote may hold.
BranchEntries ==
  {[key |-> S_branch_dot \o S_main \o S_dot_remote, value |-> n] :
     n \in {S_remote1, S_origin, S_zzz}}

\* The sequences of at most n entries of set S with distinct keys.
RECURSIVE SeqsUpTo(_, _)
SeqsUpTo(S, n) ==
  IF n = 0 THEN {<< >>}
  ELSE LET shorter == SeqsUpTo(S, n - 1)
       IN  shorter \cup
           {Append(s, e) : s \in {t \in shorter : Len(t) = n - 1}, e \in S}

DistinctKeys(config) ==
  \A i, j \in 1..Len(config) : i # j => config[i].key # config[j].key

\* A configuration with or without an entry branch.main.remote in front.
WithBranchEntry(configs) ==
  configs \cup {<<b>> \o c : b \in BranchEntries, c \in configs}

OrderConfigs ==
  WithBranchEntry({c \in SeqsUpTo(OrderEntries, MaxRemotes) : DistinctKeys(c)})

ShapeConfigs ==
  {c \in SeqsUpTo(ShapeEntries \cup OtherEntries, MaxRemotes - 1) :
     DistinctKeys(c)}

BranchNames == {S_main, S_dev}

----------------------------------------------------------------------------
(* index.js                                                                *)

stateBySeverity ==
  <<"neutral", "success", "pending", "cancelled", "timed_out",
    "action_required", "failure", "error">>

\* A plausible slip: the reduction keeps the lowest severity it has seen.
getStateLowest(sts) ==
  LET RECURSIVE reduceMin(_, _)
      reduceMin(minSeverity, i) ==
        IF i > Len(sts) THEN minSeverity
        ELSE LET severity == IndexOf(stateBySeverity, sts[i].state)
             IN  reduceMin(IF minSeverity = -1 \/ severity < minSeverity
                             THEN severity ELSE minSeverity, i + 1)
      bestSeverity == reduceMin(-1, 1)
  IN  IF bestSeverity >= 0 THEN stateBySeverity[bestSeverity + 1] ELSE ""

\* getState(statuses): statuses.reduce(... Math.max(severity, maxSeverity),
\* -1), then stateBySeverity[bestSeverity] || ''.
getState(sts) ==
  LET RECURSIVE reduceMax(_, _)
      reduceMax(maxSeverity, i) ==
        IF i > Len(sts) THEN maxSeverity
        ELSE LET severity == IndexOf(stateBySeverity, sts[i].state)
             IN  reduceMax(IF severity > maxSeverity
                             THEN severity ELSE maxSeverity, i + 1)
      bestSeverity == reduceMax(-1, 1)
  IN  IF bestSeverity >= 0 THEN stateBySeverity[bestSeverity + 1] ELSE ""

\* A plausible slip: pending among the states that exit with 1.
stateToExitCodePendingFails(state) ==
  IF state \in {"neutral", "success"} THEN 0
  ELSE IF state \in {"action_required", "cancelled", "error", "failure",
                     "timed_out", "pending"} THEN 1
  ELSE 3

\* stateToExitCode(state)
stateToExitCode(state) ==
  IF state \in {"neutral", "success"} THEN 0
  ELSE IF state \in {"action_required", "cancelled", "error", "failure",
                     "timed_out"} THEN 1
  ELSE IF state = "pending" THEN 2
  ELSE 3

\* A plausible slip: the conclusion, whatever the status of the run is.
checkRunToStatusConclusionOnly(checkRun) ==
  [state |-> checkRun.conclusion,
   context |-> checkRun.name,
   target_url |-> checkRun.html_url]

\* checkRunToStatus(checkRun)
checkRunToStatus(checkRun) ==
  [state |-> IF checkRun.status = "completed" THEN checkRun.conclusion
             ELSE "pending",
   context |-> checkRun.name,
   target_url |-> checkRun.html_url]

\* [...combinedStatus.statuses, ...checksList.check_runs.map(checkRunToStatus)]
StatusesOf(combined, checks) ==
  combined.statuses
    \o [i \in 1..Len(checks.check_runs) |->
          checkRunToStatus(checks.check_runs[i])]

\* The truth of a string that may be undefined: defined and not empty.
Truthy(optString) == optString # Undefined /\ optString # Some(<< >>)

\* getStateMarker(state, useColor): the glyph, by its name, and the colour
\* code colorize() wraps it in (0: not wrapped).
getStateMarker(state, useColor) ==
  LET colorize(glyph, code) ==
        [glyph |-> glyph, code |-> IF useColor THEN code ELSE 0]
  IN  IF state = "success" THEN colorize("check", 32)
      ELSE IF state \in {"action_required", "cancelled", "error", "failure",
                         "timed_out"} THEN colorize("cross", 31)
      ELSE IF state = "neutral" THEN colorize("circle", 30)
      ELSE IF state = "pending" THEN colorize("dot", 33)
      ELSE [glyph |-> "", code |-> 0]

\* String.prototype.padEnd with spaces.
PadEnd(str, width) ==
  IF Len(str) >= width THEN str
  ELSE str \o [i \in 1..(width - Len(str)) |-> " "]

\* formatStatus(status, contextWidth, useColor): the three parts of the line
\* `${stateMarker}\t${context}${targetUrl}`.
formatStatus(status, contextWidth, useColor) ==
  [stateMarker |-> getStateMarker(status.state, useColor),
   context |-> PadEnd(status.context, contextWidth),
   targetUrl |-> IF Truthy(status.target_url) THEN status.target_url
                 ELSE Undefined]

\* The greatest of the lengths of the contexts, or 0.
RECURSIVE MaxContextLength(_)
MaxContextLength(sts) ==
  IF sts = << >> THEN 0
  ELSE LET rest == MaxContextLength(Tail(sts))
       IN  IF Len(sts[1].context) > rest THEN Len(sts[1].context) ELSE rest

\* formatStatuses(statuses, useColor): the lines that join('\n') joins.
formatStatuses(sts, useColor) ==
  LET contextWidth ==
        IF ~\E i \in 1..Len(sts) : Truthy(sts[i].target_url) THEN 0
        ELSE MaxContextLength(sts)
  IN  [i \in 1..Len(sts) |-> formatStatus(sts[i], contextWidth, useColor)]

\* options.useColor === false ? false : options.useColor === true ? true
\*   : options.stdout.isTTY
UseColorOf(opts) ==
  IF opts.useColor = Some(FALSE) THEN FALSE
  ELSE IF opts.useColor = Some(TRUE) THEN TRUE
  ELSE opts.isTTY

\* What githubCiStatus writes to options.stdout: the state, or the lines of
\* the statuses, or 'no status' for an empty text; nothing when quiet.
StdoutWrite(opts, sts, state) ==
  IF opts.verbosity >= 0
    THEN IF opts.verbosity = 0
           THEN <<[text |-> IF state = "" THEN "no status" ELSE state,
                   lines |-> << >>]>>
           ELSE LET formatted == formatStatuses(sts, UseColorOf(opts))
                IN  <<[text |-> IF formatted = << >> THEN "no status" ELSE "",
                       lines |-> formatted]>>
    ELSE << >>

\* A plausible slip: options.wait is not handed to fetchCiStatus.
StatusOptionsOfWithoutWait(opts) ==
  [wait |-> [kind |-> "undefined", ms |-> 0], debug |-> opts.verbosity > 1]

\* A plausible slip: a wait that does not come from options.wait.
StatusOptionsOfUnboundedWait(opts) ==
  [wait |-> [kind |-> "Infinity", ms |-> 0], debug |-> opts.verbosity > 1]

\* const statusOptions = {auth: options.auth, wait: options.wait}, and
\* statusOptions.debug when options.verbosity > 1.
StatusOptionsOf(opts) ==
  [wait |-> opts.wait, debug |-> opts.verbosity > 1]

----------------------------------------------------------------------------
(* lib/fetch-ci-status.js                                                  *)

\* The interval between two polls, in ticks.
PollIntervalMs == 2

\* !options.wait: no wait, or a wait of 0.
NoWait(fetchOptions) ==
  \/ fetchOptions.wait.kind = "undefined"
  \/ fetchOptions.wait.kind = "ms" /\ fetchOptions.wait.ms = 0

\* The wait budget is exceeded at the given time; never when unbounded.
BudgetExceeded(fetchOptions, start, time) ==
  /\ fetchOptions.wait.kind = "ms"
  /\ time - start > fetchOptions.wait.ms

\* The state the combined records of the two feeds aggregate to.
FetchedState(combined, checks) == getState(StatusesOf(combined, checks))

----------------------------------------------------------------------------
(* The options and feeds explored                                          *)

\* The most status records of the commit-status feed.
MaxStatuses == 3

\* The most check runs of the check-run feed.
MaxCheckRuns == 1

\* The greatest finite wait budget, in ticks.
MaxWait == 3

\* The longest a response takes, in ticks.
MaxLatency == 1

\* The time at which a poll without a time limit is not followed further.
MaxTime == 8

S_ci == <<"c", "i">>  \* "ci"
S_build == <<"b", "u", "i", "l", "d">>  \* "build"
S_u == <<"u">>  \* "u"

\* The states of the scale, and a conclusion that is not on it.
FeedStates ==
  {stateBySeverity[i] : i \in 1..Len(stateBySeverity)} \cup {"skipped"}

StatusRecords ==
  {[state |-> st, context |-> S_ci, target_url |-> Undefined] :
     st \in FeedStates}
  \cup {[state |-> "success", context |-> S_build, target_url |-> Some(S_u)]}

\* The check runs: a run that is not completed has no conclusion, which the
\* string "null" stands for.
CheckRuns ==
  {[status |-> "in_progress", conclusion |-> "null", name |-> S_ci,
    html_url |-> Some(S_u)],
   [status |-> "queued", conclusion |-> "null", name |-> S_ci,
    html_url |-> Some(S_u)],
   [status |-> "completed", conclusion |-> "success", name |-> S_ci,
    html_url |-> Some(S_u)],
   [status |-> "completed", conclusion |-> "failure", name |-> S_build,
    html_url |-> Some(S_u)],
   [status |-> "completed", conclusion |-> "skipped", name |-> S_ci,
    html_url |-> Some(S_u)]}

\* The sequences of at most n elements of S.
RECURSIVE AllSeqsUpTo(_, _)
AllSeqsUpTo(S, n) ==
  IF n = 0 THEN {<< >>}
  ELSE LET shorter == AllSeqsUpTo(S, n - 1)
       IN  shorter \cup
           {Append(t, e) : t \in {u \in shorter : Len(u) = n - 1}, e \in S}

\* The feeds of the runs that aggregate: every sequence of records.
AggregateFeeds ==
  [statuses : AllSeqsUpTo(StatusRecords, MaxStatuses),
   check_runs : AllSeqsUpTo(CheckRuns, MaxCheckRuns)]

\* The feeds of the runs that poll: pending, finished and empty ones.
PollFeeds ==
  [statuses : {<< >>,
               <<[state |-> "pending", context |-> S_ci,
                  target_url |-> Undefined]>>,
               <<[state |-> "success", context |-> S_ci,
                  target_url |-> Undefined]>>},
   check_runs : {<< >>,
                 <<[status |-> "in_progress", conclusion |-> "null",
                    name |-> S_ci, html_url |-> Some(S_u)]>>,
                 <<[status |-> "completed", conclusion |-> "failure",
                    name |-> S_build, html_url |-> Some(S_u)]>>}]

WaitUndefined == [kind |-> "undefined", ms |-> 0]

WaitInfinity == [kind |-> "Infinity", ms |-> 0]

WaitMs(n) == [kind |-> "ms", ms |-> n]

Waits == {WaitUndefined, WaitInfinity} \cup {WaitMs(n) : n \in 0..MaxWait}

\* The options of the runs that aggregate: no wait, each way of writing.
AggregateOptions ==
  {[wait |-> WaitUndefined, verbosity |-> v, useColor |-> Undefined,
    isTTY |-> FALSE] : v \in {-1, 0}}
  \cup {[wait |-> WaitUndefined, verbosity |-> 1, useColor |-> Undefined,
         isTTY |-> TRUE]}

\* The options of the runs that poll: each wait, quiet or with debug lines.
PollOptions ==
  {[wait |-> w, verbosity |-> 0, useColor |-> Some(FALSE), isTTY |-> FALSE] :
     w \in Waits}
  \cup {[wait |-> WaitMs(MaxWait), verbosity |-> 2, useColor |-> Some(TRUE),
         isTTY |-> FALSE]}

\* The configurations of the runs of githubCiStatus: one remote, or none.
CiConfigs ==
  {<< >>,
   <<[key |-> RemoteKey(S_origin, S_url),
      value |-> HttpsUrl(S_github_com, ProjectPath(S_foo, S_bar \o S_dot_git))]>>}

----------------------------------------------------------------------------
(* getProjectName()                                                        *)

Pending == [state |-> "pending", name |-> "", message |-> "", value |-> << >>]

CiPending ==
  [state |-> "pending", name |-> "", overall |-> "", exitCode |-> Undefined]

NoFeeds == [statuses |-> << >>, check_runs |-> << >>]

\* fetchCiStatus() has not been called.
FetchIdle ==
  /\ statusOptions = [wait |-> WaitUndefined, debug |-> FALSE]
  /\ fetchPc = "idle"
  /\ fetchP = Pending
  /\ statusReq = "none"
  /\ checksReq = "none"
  /\ combinedStatus = [statuses |-> << >>]
  /\ checksList = [check_runs |-> << >>]
  /\ fetchCount = 0
  /\ startTime = 0

\* githubCiStatus() has done nothing yet.
CiIdle ==
  /\ now = 0
  /\ commitP = Pending
  /\ ciP = CiPending
  /\ statuses = << >>
  /\ stdout = << >>
  /\ stderr = 0

\* getProjectName() is called by itself, on each configuration.
InitProject ==
  /\ \/ gitHubHostEnv = Undefined /\ repoConfig \in OrderConfigs
     \/ gitHubHostEnv \in {Undefined, Some(S_ghe_corp)}
        /\ repoConfig \in ShapeConfigs
  /\ branchP = Pending
  /\ configP = Pending
  /\ projectP = Pending
  /\ options = [wait |-> WaitUndefined, verbosity |-> 0,
                useColor |-> Undefined, isTTY |-> FALSE]
  /\ server = NoFeeds
  /\ CiIdle
  /\ FetchIdle

\* getBranch() resolves: tryGetBranch() resolves to the branch name.
TryGetBranchOk ==
  /\ branchP.state = "pending"
  /\ \E b \in BranchNames :
       branchP' = [Pending EXCEPT !.state = "fulfilled", !.value = Some(b)]
  /\ UNCHANGED <<gitHubHostEnv, repoConfig, configP, projectP, server, now,
                 ciVars, fetchVars>>

\* A plausible slip: tryGetBranch() without its catch, so that the rejection
\* of getBranch() rejects Promise.all and getProjectName().
TryGetBranchFailRethrown ==
  /\ branchP.state = "pending"
  /\ branchP' = [Pending EXCEPT !.state = "rejected", !.name = "Error",
                                !.message = "git symbolic-ref failed"]
  /\ projectP' = IF projectP.state = "pending" THEN branchP' ELSE projectP
  /\ UNCHANGED <<gitHubHostEnv, repoConfig, configP, server, now, ciVars,
                 fetchVars>>

\* getBranch() rejects: tryGetBranch() catches and resolves to undefined.
TryGetBranchFail ==
  /\ branchP.state = "pending"
  /\ branchP' = [Pending EXCEPT !.state = "fulfilled", !.value = Undefined]
  /\ UNCHANGED <<gitHubHostEnv, repoConfig, configP, projectP, server, now,
                 ciVars, fetchVars>>

\* getConfig('local') resolves to the configuration.
GetConfigOk ==
  /\ configP.state = "pending"
  /\ configP' = [Pending EXCEPT !.state = "fulfilled", !.value = repoConfig]
  /\ UNCHANGED <<gitHubHostEnv, repoConfig, branchP, projectP, server, now,
                 ciVars, fetchVars>>

\* getConfig('local') rejects.
GetConfigFail ==
  /\ configP.state = "pending"
  /\ configP' = ConfigReadError
  /\ UNCHANGED <<gitHubHostEnv, repoConfig, branchP, projectP, server, now,
                 ciVars, fetchVars>>

\* The rejection of getConfig() has rejected Promise.all: the await throws
\* and getProjectName() rejects with the same error, whether tryGetBranch()
\* has settled or not.
GetProjectNameReject ==
  /\ projectP.state = "pending"
  /\ configP.state = "rejected"
  /\ projectP' = configP
  /\ UNCHANGED <<gitHubHostEnv, repoConfig, branchP, configP, server, now,
                 ciVars, fetchVars>>

\* Both promises are fulfilled: the rest of getProjectName() runs.
GetProjectNameSettle ==
  /\ projectP.state = "pending"
  /\ branchP.state = "fulfilled"
  /\ configP.state = "fulfilled"
  /\ projectP' = ResolveProject(branchP.value, configP.value, gitHubHostEnv)
  /\ UNCHANGED <<gitHubHostEnv, repoConfig, branchP, configP, server, now,
                 ciVars, fetchVars>>

NextProject ==
  \/ TryGetBranchOk
  \/ TryGetBranchFail
  \/ GetConfigOk
  \/ GetConfigFail
  \/ GetProjectNameReject
  \/ GetProjectNameSettle

SpecProject == InitProject /\ [][NextProject]_vars

----------------------------------------------------------------------------
(* githubCiStatus(ref, options) and fetchCiStatus(owner, repo, sha, options) *)

\* resolveCommit(ref) resolves to the hash of the commit.
ResolveCommitOk ==
  /\ commitP.state = "pending"
  /\ commitP' = [Pending EXCEPT !.state = "fulfilled",
                                !.value = <<"s", "h", "a">>]
  /\ UNCHANGED <<projectVars, options, server, now, ciP, statuses, stdout,
                 stderr, fetchVars>>

\* resolveCommit(ref) rejects.
ResolveCommitFail ==
  /\ commitP.state = "pending"
  /\ commitP' = [Pending EXCEPT !.state = "rejected", !.name = "Error",
                                !.message = "git rev-parse failed"]
  /\ UNCHANGED <<projectVars, options, server, now, ciP, statuses, stdout,
                 stderr, fetchVars>>

\* Promise.all([getProjectName(), resolveCommit(ref)]) rejects with the
\* rejection of one of the two: githubCiStatus() rejects with it.
CiRejectUnresolved ==
  /\ ciP.state = "pending"
  /\ fetchPc = "idle"
  /\ \E p \in {projectP, commitP} :
       /\ p.state = "rejected"
       /\ ciP' = [CiPending EXCEPT !.state = "rejected", !.name = p.name]
  /\ UNCHANGED <<projectVars, options, server, now, commitP, statuses, stdout,
                 stderr, fetchVars>>

\* A plausible slip: the commit is not awaited, so that fetchCiStatus() is
\* called as soon as the project is known.
FetchCiStatusCallCommitNotAwaited ==
  /\ ciP.state = "pending"
  /\ fetchPc = "idle"
  /\ projectP.state = "fulfilled"
  /\ statusOptions' = StatusOptionsOf(options)
  /\ fetchPc' = "fetching"
  /\ statusReq' = "inflight"
  /\ checksReq' = "inflight"
  /\ fetchCount' = 1
  /\ startTime' = now
  /\ UNCHANGED <<projectVars, options, server, now, ciVars, fetchP,
                 combinedStatus, checksList>>

\* Both are fulfilled: githubCiStatus() calls fetchCiStatus(), which issues
\* its first pair of requests.
FetchCiStatusCall ==
  /\ ciP.state = "pending"
  /\ fetchPc = "idle"
  /\ projectP.state = "fulfilled"
  /\ commitP.state = "fulfilled"
  /\ statusOptions' = StatusOptionsOf(options)
  /\ fetchPc' = "fetching"
  /\ statusReq' = "inflight"
  /\ checksReq' = "inflight"
  /\ fetchCount' = 1
  /\ startTime' = now
  /\ UNCHANGED <<projectVars, options, server, now, ciVars, fetchP,
                 combinedStatus, checksList>>

\* The time a response takes; the clock is read only when there is a wait.
Latencies == IF NoWait(statusOptions) THEN {0} ELSE 0..MaxLatency

\* The commit-status feed answers with the statuses the forge holds.
StatusResponse ==
  /\ fetchPc = "fetching"
  /\ statusReq = "inflight"
  /\ statusReq' = "done"
  /\ combinedStatus' = [statuses |-> server.statuses]
  /\ \E d \in Latencies : now' = now + d
  /\ UNCHANGED <<projectVars, options, server, ciVars, statusOptions, fetchPc,
                 fetchP, checksReq, checksList, fetchCount, startTime>>

\* The check-run feed answers with the check runs the forge holds.
ChecksResponse ==
  /\ fetchPc = "fetching"
  /\ checksReq = "inflight"
  /\ checksReq' = "done"
  /\ checksList' = [check_runs |-> server.check_runs]
  /\ \E d \in Latencies : now' = now + d
  /\ UNCHANGED <<projectVars, options, server, ciVars, statusOptions, fetchPc,
                 fetchP, statusReq, combinedStatus, fetchCount, startTime>>

\* A request fails: fetchCiStatus() rejects, with no retry.
FeedError ==
  /\ fetchPc = "fetching"
  /\ statusReq = "inflight" \/ checksReq = "inflight"
  /\ fetchPc' = "done"
  /\ fetchP' = [Pending EXCEPT !.state = "rejected", !.name = "HttpError",
                               !.message = "request failed"]
  /\ UNCHANGED <<projectVars, options, server, now, ciVars, statusOptions,
                 statusReq, checksReq, combinedStatus, checksList, fetchCount,
                 startTime>>

\* Both requests of a pair are answered: fetchCiStatus() returns them when
\* there is no wait or when they do not aggregate to pending, and schedules
\* the next poll otherwise.
PairDone ==
  /\ fetchPc = "fetching"
  /\ statusReq = "done"
  /\ checksReq = "done"
  /\ IF NoWait(statusOptions)
        \/ FetchedState(combinedStatus, checksList) # "pending"
       THEN /\ fetchPc' = "done"
            /\ fetchP' = [Pending EXCEPT
                            !.state = "fulfilled",
                            !.value = <<combinedStatus, checksList>>]
            /\ stderr' = stderr
       ELSE /\ fetchPc' = "sleeping"
            /\ fetchP' = fetchP
            /\ stderr' = IF statusOptions.debug THEN stderr + 1 ELSE stderr
  /\ UNCHANGED <<projectVars, options, server, now, commitP, ciP, statuses,
                 stdout, statusOptions, statusReq, checksReq, combinedStatus,
                 checksList, fetchCount, startTime>>

\* The polling interval is over: the poll is skipped and the last data
\* returned when the budget is exceeded, and the next pair issued otherwise.
WakeUp ==
  /\ fetchPc = "sleeping"
  /\ statusOptions.wait.kind = "Infinity" => now + PollIntervalMs <= MaxTime
  /\ now' = now + PollIntervalMs
  /\ IF BudgetExceeded(statusOptions, startTime, now')
       THEN /\ fetchPc' = "done"
            /\ fetchP' = [Pending EXCEPT
                            !.state = "fulfilled",
                            !.value = <<combinedStatus, checksList>>]
            /\ UNCHANGED <<statusReq, checksReq, fetchCount>>
       ELSE /\ fetchPc' = "fetching"
            /\ statusReq' = "inflight"
            /\ checksReq' = "inflight"
            /\ fetchCount' = fetchCount + 1
            /\ fetchP' = fetchP
  /\ UNCHANGED <<projectVars, options, server, ciVars, statusOptions,
                 combinedStatus, checksList, startTime>>

\* The forge records a change of the statuses or of the check runs.
ServerUpdate ==
  /\ fetchPc \in {"fetching", "sleeping"}
  /\ server' \in PollFeeds \ {server}
  /\ UNCHANGED <<projectVars, options, now, ciVars, fetchVars>>

\* fetchCiStatus() rejected: githubCiStatus() rejects with its error.
CiRejectFetch ==
  /\ ciP.state = "pending"
  /\ fetchP.state = "rejected"
  /\ ciP' = [CiPending EXCEPT !.state = "rejected", !.name = fetchP.name]
  /\ UNCHANGED <<projectVars, options, server, now, commitP, statuses, stdout,
                 stderr, fetchVars>>

\* fetchCiStatus() returned: githubCiStatus() joins the records, takes their
\* state, writes it and returns its exit code.
CiFinish ==
  /\ ciP.state = "pending"
  /\ fetchP.state = "fulfilled"
  /\ LET sts == StatusesOf(fetchP.value[1], fetchP.value[2])
         state == getState(sts)
     IN  /\ statuses' = sts
         /\ stdout' = stdout \o StdoutWrite(options, sts, state)
         /\ ciP' = [CiPending EXCEPT
                      !.state = "fulfilled",
                      !.overall = state,
                      !.exitCode = Some(stateToExitCode(state))]
  /\ UNCHANGED <<projectVars, options, server, now, commitP, stderr,
                 fetchVars>>

\* A step of fetchCiStatus().
FetchStep ==
  \/ StatusResponse
  \/ ChecksResponse
  \/ FeedError
  \/ PairDone
  \/ WakeUp

\* githubCiStatus() is called in a repository with one remote or none, with
\* each wait, on a commit whose feeds are pending, finished or empty.
Init ==
  /\ gitHubHostEnv = Undefined
  /\ repoConfig \in CiConfigs
  /\ branchP = Pending
  /\ configP = Pending
  /\ projectP = Pending
  /\ options \in PollOptions
  /\ server \in PollFeeds
  /\ CiIdle
  /\ FetchIdle

Next ==
  \/ TryGetBranchOk
  \/ TryGetBranchFail
  \/ GetConfigOk
  \/ GetConfigFail
  \/ GetProjectNameReject
  \/ GetProjectNameSettle
  \/ ResolveCommitOk
  \/ ResolveCommitFail
  \/ CiRejectUnresolved
  \/ FetchCiStatusCall
  \/ StatusResponse
  \/ ChecksResponse
  \/ FeedError
  \/ PairDone
  \/ WakeUp
  \/ ServerUpdate
  \/ CiRejectFetch
  \/ CiFinish

\* A continuation of githubCiStatus() after one of its awaits.
CiStep ==
  \/ CiRejectUnresolved
  \/ FetchCiStatusCall
  \/ CiRejectFetch
  \/ CiFinish

\* Requests are answered or fail, timers fire and continuations run.
Spec == Init /\ [][Next]_vars /\ WF_vars(FetchStep) /\ WF_vars(CiStep)

\* githubCiStatus() without a wait, from the point where the project and the
\* commit are resolved, on each pair of feeds.
InitAggregate ==
  /\ gitHubHostEnv = Undefined
  /\ repoConfig =
       <<[key |-> RemoteKey(S_origin, S_url),
          value |-> HttpsUrl(S_github_com,
                             ProjectPath(S_foo, S_bar \o S_dot_git))]>>
  /\ branchP = [Pending EXCEPT !.state = "fulfilled", !.value = Some(S_main)]
  /\ configP = [Pending EXCEPT !.state = "fulfilled", !.value = repoConfig]
  /\ projectP = ResolveProject(Some(S_main), repoConfig, Undefined)
  /\ options \in AggregateOptions
  /\ server \in AggregateFeeds
  /\ now = 0
  /\ commitP = [Pending EXCEPT !.state = "fulfilled",
                               !.value = <<"s", "h", "a">>]
  /\ ciP = CiPending
  /\ statuses = << >>
  /\ stdout = << >>
  /\ stderr = 0
  /\ FetchIdle

NextAggregate ==
  \/ FetchCiStatusCall
  \/ StatusResponse
  \/ ChecksResponse
  \/ FeedError
  \/ PairDone
  \/ CiRejectFetch
  \/ CiFinish

SpecAggregate == InitAggregate /\ [][NextAggregate]_vars

----------------------------------------------------------------------------
(* What the specification says of a configuration, stated without the      *)
(* operators that model lib/github-utils.js                                *)

\* getProjectName() has run to its end on a branch lookup and a config.
Resolved ==
  /\ branchP.state = "fulfilled"
  /\ configP.state = "fulfilled"
  /\ projectP.state # "pending"

NoSlash(s) == \A i \in 1..Len(s) : s[i] # "/"

\* The names a key of the configuration may hold after "remote.": a name
\* is on one line.
SpecCandidateNames ==
  {name \in UNION {{SubSeq(repoConfig[k].key, 8, m) :
                      m \in 7..Len(repoConfig[k].key)} :
                     k \in 1..Len(repoConfig)} :
     \A i \in 1..Len(name) : name[i] \notin {"\n", "\r", "LS", "PS"}}

\* The remote-url entries of the configuration: the entries whose key is
\* remote.<name>.url or remote.<name>.pushurl, with their parsed URL.
SpecRemoteEntries ==
  {[name |-> t[2], isPush |-> t[3],
    parsed |-> parseGitUrl(repoConfig[t[1]].value)] :
     t \in {u \in (1..Len(repoConfig)) \X SpecCandidateNames \X BOOLEAN :
              repoConfig[u[1]].key =
                RemoteKey(u[2], IF u[3] THEN S_pushurl ELSE S_url)}}

\* The recognized hosts: the canonical host, the alternate host of the
\* environment, and the hosts that end with ".github.com".
SpecHostRecognized(hostname) ==
  \/ hostname = S_github_com
  \/ gitHubHostEnv # Undefined /\ hostname = gitHubHostEnv[1]
  \/ \E k \in 0..Len(hostname) :
       hostname = SubSeq(hostname, 1, k) \o S_dot_github_com

\* The identities <<owner, repo>> of a path: the path is /owner/repo or
\* /owner/repo.git with a non-empty owner and a non-empty repo, neither of
\* which holds a separator.
SpecIdentities(pathname) ==
  {<<SubSeq(pathname, 2, i - 1), SubSeq(pathname, i + 1, j)>> :
     <<i, j>> \in
       {<<i, j>> \in (1..Len(pathname)) \X (1..Len(pathname)) :
          /\ pathname[1] = "/"
          /\ 2 < i /\ i < j
          /\ pathname[i] = "/"
          /\ NoSlash(SubSeq(pathname, 2, i - 1))
          /\ NoSlash(SubSeq(pathname, i + 1, Len(pathname)))
          /\ IF EndsWith(SubSeq(pathname, i + 1, Len(pathname)), S_dot_git)
               THEN j = Len(pathname) - 4
               ELSE j = Len(pathname)}}

\* The remote-url entries that name a valid hosted project, with it.
SpecValidEntries ==
  UNION {{[name |-> e.name, isPush |-> e.isPush, project |-> id] :
            id \in IF ~e.parsed.threw /\ SpecHostRecognized(e.parsed.hostname)
                     THEN SpecIdentities(e.parsed.pathname)
                     ELSE {}} :
           e \in SpecRemoteEntries}

\* The configured remote of the current branch, when the branch is known.
SpecBranchRemote ==
  IF branchP.value = Undefined THEN Undefined
  ELSE LET key == S_branch_dot \o branchP.value[1] \o S_dot_remote
       IN  IF \E i \in 1..Len(repoConfig) : repoConfig[i].key = key
             THEN Some(repoConfig[CHOOSE i \in 1..Len(repoConfig) :
                                    repoConfig[i].key = key].value)
             ELSE Undefined

\* The rank of a name in the preference list upstream, github, origin.
SpecListRank(name) ==
  IF name = S_upstream THEN 1
  ELSE IF name = S_github THEN 2
  ELSE IF name = S_origin THEN 3
  ELSE 4

\* n1 is preferred to n2 by the branch remote or by the preference list.
SpecPrefersByBranchOrList(n1, n2) ==
  /\ n1 # n2
  /\ \/ SpecBranchRemote = Some(n1)
     \/ SpecBranchRemote # Some(n2) /\ SpecListRank(n1) < SpecListRank(n2)

\* Neither the branch remote nor a name of the preference list.
SpecUnlisted(name) ==
  SpecBranchRemote # Some(name) /\ SpecListRank(name) = 4

\* The config that declares the remote-url entries of the given names and
\* kinds in the given order, each with the URL of the project <name>/<kind>.
OrderConfigOf(keys) ==
  [i \in 1..Len(keys) |->
     [key |-> RemoteKey(keys[i][1], keys[i][2]),
      value |-> HttpsUrl(S_github_com,
                         ProjectPath(keys[i][1], keys[i][2] \o S_dot_git))]]

----------------------------------------------------------------------------
(* Claims                                                                  *)

\* C1: when several remotes name valid hosted projects, getProjectName
\* resolves the remote of the current branch if one of them is it, and
\* otherwise prefers upstream to github, github to origin and these three to
\* every other name, whatever the order of the entries in the config: the
\* project returned is that of a valid entry to which no valid entry of
\* another name is preferred by the branch remote or by the list.
C1_BranchThenPreferenceList ==
  Resolved =>
    LET valid == SpecValidEntries
    IN  valid # {} =>
          /\ projectP.state = "fulfilled"
          /\ \E e \in valid :
               /\ e.project = projectP.value
               /\ \A f \in valid : ~SpecPrefersByBranchOrList(f.name, e.name)

\* C1 witness: origin, upstream and remote1 are declared in this order after
\* branch.main.remote = remote1, the branch is main, and the project of
\* remote1 is returned.
C1_Witness ==
  /\ Resolved
  /\ branchP.value = Some(S_main)
  /\ repoConfig =
       <<[key |-> S_branch_dot \o S_main \o S_dot_remote, value |-> S_remote1]>>
       \o OrderConfigOf(<<<<S_origin, S_url>>, <<S_upstream, S_url>>,
                          <<S_remote1, S_url>>>>)
  /\ projectP.state = "fulfilled"
  /\ projectP.value = <<S_remote1, S_url>>

\* C2: when the url and the pushurl of a remote both name valid projects,
\* the pushurl is tried first: the project returned is that of a valid entry
\* that is a pushurl or whose remote has no valid pushurl.
C2_PushUrlFirst ==
  Resolved =>
    LET valid == SpecValidEntries
    IN  valid # {} =>
          /\ projectP.state = "fulfilled"
          /\ \E e \in valid :
               /\ e.project = projectP.value
               /\ \/ e.isPush
                  \/ ~\E f \in valid : f.name = e.name /\ f.isPush

\* C2 witness: remote.remote1.url is declared before remote.remote1.pushurl
\* and the project of the pushurl is returned.
C2_Witness ==
  /\ Resolved
  /\ repoConfig = OrderConfigOf(<<<<S_remote1, S_url>>,
                                 <<S_remote1, S_pushurl>>>>)
  /\ projectP.state = "fulfilled"
  /\ projectP.value = <<S_remote1, S_pushurl>>

\* C3: of two valid entries whose names are neither the branch remote nor in
\* the preference list, the one of the lexicographically smaller name is
\* tried first: the project returned is that of a valid entry e such that no
\* valid entry of a smaller unlisted name exists when e is unlisted.
C3_LexicographicByName ==
  Resolved =>
    LET valid == SpecValidEntries
    IN  valid # {} =>
          /\ projectP.state = "fulfilled"
          /\ \E e \in valid :
               /\ e.project = projectP.value
               /\ \A f \in valid :
                    (SpecUnlisted(e.name) /\ SpecUnlisted(f.name))
                      => ~StrLess(f.name, e.name)

\* C3 witness: remote1 is declared before aremote, neither is the branch
\* remote, and the project of aremote is returned.
C3_Witness ==
  /\ Resolved
  /\ repoConfig = OrderConfigOf(<<<<S_remote1, S_url>>, <<S_aremote, S_url>>>>)
  /\ projectP.state = "fulfilled"
  /\ projectP.value = <<S_aremote, S_url>>

\* C4: whenever no remote-url entry of the config names a valid hosted
\* project, getProjectName returns no value and fails with an error whose
\* name is UnknownProjectError.
C4_UnknownProjectError ==
  (Resolved /\ SpecValidEntries = {}) =>
    /\ projectP.state = "rejected"
    /\ projectP.name = "UnknownProjectError"

\* C5: every identity getProjectName returns has a non-empty owner and a
\* non-empty repo, and comes from a remote URL whose path is /owner/repo or
\* /owner/repo.git; a config whose recognized URLs all have paths such as
\* /foo, /foo/bar/baz, /foo/ or /foo/.git yields no identity.
C5_TwoNonEmptySegments ==
  Resolved =>
    /\ projectP.state = "fulfilled" =>
         /\ Len(projectP.value) = 2
         /\ projectP.value[1] # << >>
         /\ projectP.value[2] # << >>
         /\ NoSlash(projectP.value[1]) /\ NoSlash(projectP.value[2])
         /\ \E e \in SpecRemoteEntries :
              /\ ~e.parsed.threw
              /\ e.parsed.pathname \in
                   {ProjectPath(projectP.value[1], projectP.value[2]),
                    ProjectPath(projectP.value[1],
                                projectP.value[2] \o S_dot_git)}
    /\ (\A e \in SpecRemoteEntries :
          e.parsed.threw
          \/ e.parsed.pathname \in
               {<<"/">> \o S_foo, <<"/">> \o S_foo \o S_dot_git,
                ProjectPath(S_foo, S_bar) \o <<"/">> \o S_baz,
                ProjectPath(S_foo, S_bar) \o <<"/">> \o S_baz \o S_dot_git,
                ProjectPath(S_foo, << >>), ProjectPath(S_foo, S_dot_git)})
         => projectP.state = "rejected"

\* C5 witness: the only remote URLs are https://github.com/foo/.git and
\* https://github.com/foo/bar/baz.git, and getProjectName fails.
C5_Witness ==
  /\ Resolved
  /\ Len(repoConfig) = 2
  /\ {repoConfig[1].value, repoConfig[2].value} =
       {HttpsUrl(S_github_com, ProjectPath(S_foo, S_dot_git)),
        HttpsUrl(S_github_com,
                 ProjectPath(S_foo, S_bar) \o <<"/">> \o S_baz \o S_dot_git)}
  /\ Cardinality(SpecRemoteEntries) = 2
  /\ projectP.state = "rejected"

\* C6: a remote URL yields a project identity only if its hostname is
\* github.com, is the alternate host of the environment, or ends with
\* ".github.com"; a URL of such a host with a valid path yields one.
C6_RecognizedHostsOnly ==
  Resolved =>
    /\ projectP.state = "fulfilled" =>
         \E e \in SpecRemoteEntries :
           /\ ~e.parsed.threw
           /\ \/ e.parsed.hostname = S_github_com
              \/ gitHubHostEnv # Undefined
                 /\ e.parsed.hostname = gitHubHostEnv[1]
              \/ \E k \in 0..Len(e.parsed.hostname) :
                   e.parsed.hostname =
                     SubSeq(e.parsed.hostname, 1, k) \o S_dot_github_com
           /\ projectP.value \in SpecIdentities(e.parsed.pathname)
    /\ (\E e \in SpecRemoteEntries :
          /\ ~e.parsed.threw
          /\ e.parsed.hostname = S_example_github_com
          /\ SpecIdentities(e.parsed.pathname) # {})
         => projectP.state = "fulfilled"

\* C6 witness: remote.origin.url is on github.com.example.com and
\* remote.aremote.url on example.github.com; the project of the second is
\* returned although origin is tried first.
C6_Witness ==
  /\ Resolved
  /\ repoConfig =
       <<[key |-> RemoteKey(S_origin, S_url),
          value |-> HttpsUrl(S_github_com_example_com,
                             ProjectPath(S_foo, S_bar \o S_dot_git))],
         [key |-> RemoteKey(S_aremote, S_url),
          value |-> HttpsUrl(S_example_github_com,
                             ProjectPath(S_foo, S_bar \o S_dot_git))]>>
  /\ projectP.state = "fulfilled"
  /\ projectP.value = <<S_foo, S_bar>>


----------------------------------------------------------------------------
(* What the specification says of the statuses, stated without the         *)
(* operators that model index.js                                           *)

\* neutral < success < pending < cancelled < timed_out < action_required
\*   < failure < error
SpecSeverity ==
  [neutral |-> 1, success |-> 2, pending |-> 3, cancelled |-> 4,
   timed_out |-> 5, action_required |-> 6, failure |-> 7, error |-> 8]

\* The state of highest severity among the states that are on the scale, or
\* the empty symbol.
SpecHighest(states) ==
  LET present == states \cap DOMAIN SpecSeverity
  IN  IF present = {} THEN ""
      ELSE CHOOSE st \in present :
             \A other \in present : SpecSeverity[other] <= SpecSeverity[st]

\* The overall state of a sequence of records.
SpecOverallState(sts) == SpecHighest({sts[i].state : i \in 1..Len(sts)})

\* The exit code of an overall state.
SpecExitCode(state) ==
  CASE state \in {"neutral", "success"} -> 0
    [] state \in {"cancelled", "timed_out", "action_required", "failure",
                  "error"} -> 1
    [] state = "pending" -> 2
    [] OTHER -> 3

\* The states of the records, in their order.
StatesOf(sts) == [i \in 1..Len(sts) |-> sts[i].state]

\* The wait of the caller is 0 or absent.
SpecWaitAbsent ==
  options.wait.kind = "undefined"
  \/ (options.wait.kind = "ms" /\ options.wait.ms = 0)

\* The wait of the caller is a finite, positive budget.
SpecWaitBounded == options.wait.kind = "ms" /\ options.wait.ms > 0

\* StatusFetcher has returned data.
Returned == fetchPc = "done" /\ fetchP.state = "fulfilled"

\* The data returned aggregates to pending: a check run counts as pending
\* until it is completed, and as its conclusion from then on.
ReturnedPending ==
  LET native == fetchP.value[1].statuses
      runs == fetchP.value[2].check_runs
  IN  SpecHighest({native[i].state : i \in 1..Len(native)}
                  \cup {IF runs[i].status = "completed"
                          THEN runs[i].conclusion ELSE "pending" :
                        i \in 1..Len(runs)}) = "pending"

\* C7: once githubCiStatus has returned, the overall state it computed is
\* the state of highest severity among the states of the records, which
\* depends on the set of the states only and so not on their order, and it
\* is the empty symbol when there is no record.
C7_HighestSeverity ==
  ciP.state = "fulfilled" =>
    /\ ciP.overall = SpecOverallState(statuses)
    /\ statuses = << >> => ciP.overall = ""

\* Records of states success, pending, failure gave failure.
C7_Witness ==
  /\ ciP.state = "fulfilled"
  /\ StatesOf(statuses) = <<"success", "pending", "failure">>
  /\ ciP.overall = "failure"

\* C8: the exit code githubCiStatus returns is the code of the overall state
\* of the records: 0 for neutral and success, 1 for the failed states, 2 for
\* pending and 3 otherwise, so 3 when there is no status and no check run.
C8_ExitCodeOfState ==
  ciP.state = "fulfilled" =>
    /\ ciP.exitCode = Some(SpecExitCode(SpecOverallState(statuses)))
    /\ (fetchP.value[1].statuses = << >>
        /\ fetchP.value[2].check_runs = << >>) => ciP.exitCode = Some(3)

\* No status and no check run gave 3.
C8_Witness ==
  /\ ciP.state = "fulfilled"
  /\ fetchP.value[1].statuses = << >>
  /\ fetchP.value[2].check_runs = << >>
  /\ ciP.exitCode = Some(3)

\* C9: with a wait of 0 or no wait, there is never more than one pair of
\* requests and no poll is scheduled, and what is returned is the answers of
\* that one pair, whatever they aggregate to.
C9_NoWaitOnePair ==
  SpecWaitAbsent =>
    /\ fetchCount <= 1
    /\ fetchPc # "sleeping"
    /\ Returned =>
         /\ fetchCount = 1
         /\ statusReq = "done"
         /\ checksReq = "done"
         /\ fetchP.value = <<combinedStatus, checksList>>

\* A wait of 0 returned the pending answers of its one pair.
C9_Witness ==
  /\ options.wait = WaitMs(0)
  /\ Returned
  /\ fetchCount = 1
  /\ ReturnedPending

\* C10: with a finite positive wait, a fetch that has started ends; data
\* that is pending is not returned before the budget has elapsed; no pair of
\* requests is issued once the budget is exceeded; and the data returned is
\* the answers of the last pair.
C10_BoundedWaitTerminates ==
  /\ [](SpecWaitBounded /\ Returned =>
          /\ ReturnedPending => now - startTime >= options.wait.ms
          /\ fetchP.value = <<combinedStatus, checksList>>)
  /\ [][SpecWaitBounded /\ fetchCount' > fetchCount =>
          now' - startTime' <= options.wait.ms]_vars
  /\ (SpecWaitBounded /\ fetchPc = "fetching") ~> (fetchPc = "done")

\* A bounded wait polled pending feeds again and returned the pending
\* answers of the last pair once the budget was exceeded.
C10_Witness ==
  /\ SpecWaitBounded
  /\ Returned
  /\ ReturnedPending
  /\ fetchCount >= 2
  /\ now - startTime > options.wait.ms

\* Two entries of the configuration give remote-url entries of one name and
\* one kind.
SpecCollision ==
  \E i, j \in 1..Len(repoConfig) :
    /\ i < j
    /\ \E name \in SpecCandidateNames, kind \in {S_url, S_pushurl} :
         /\ repoConfig[i].key = RemoteKey(name, kind)
         /\ repoConfig[j].key = RemoteKey(name, kind)

\* C11: getProjectName fails with the error 'Duplicate config' exactly when
\* two remote-url entries of the configuration have the same name and the
\* same kind, so never without such a collision.  The entries of a mapping
\* have distinct keys and so never collide; what the comparator does with
\* two entries of one name and one kind is therefore stated of the
\* comparator itself: it throws, whatever the URLs and the branch remote.
C11_DuplicateConfigError ==
  /\ Resolved => (projectP = DuplicateConfigError <=> SpecCollision)
  /\ \A name \in RemoteNames, isPush \in BOOLEAN,
        url1, url2 \in {HttpsUrl(S_github_com, ProjectPath(S_foo, repo)) :
                          repo \in {S_bar, S_baz}} :
       \A branchRemote \in {Undefined, Some(name), Some(S_zzz)} :
       compareRemotes([name |-> name, isPush |-> isPush, url |-> url1],
                      [name |-> name, isPush |-> isPush, url |-> url2],
                      branchRemote).threw

\* C11 witness: the url and the pushurl of origin are declared, which the
\* comparator tells apart at its last test only, and a project is returned.
C11_Witness ==
  /\ Resolved
  /\ ~SpecCollision
  /\ repoConfig = OrderConfigOf(<<<<S_origin, S_url>>, <<S_origin, S_pushurl>>>>)
  /\ projectP.state = "fulfilled"
  /\ projectP.value = <<S_origin, S_pushurl>>

\* C12: the entries whose URL does not parse, is of an unrecognized host or
\* has not the shape of a project path are left out and the others tried in
\* the trial order (branch remote, preference list, name, pushurl before
\* url): getProjectName fails only if no entry is valid, and otherwise
\* returns the project of a valid entry that no valid entry precedes, however
\* many invalid entries precede it.
C12_InvalidEntriesSkipped ==
  Resolved =>
    LET valid == SpecValidEntries
        Precedes(f, e) ==
          \/ SpecPrefersByBranchOrList(f.name, e.name)
          \/ /\ f.name # e.name
             /\ ~SpecPrefersByBranchOrList(e.name, f.name)
             /\ StrLess(f.name, e.name)
          \/ f.name = e.name /\ f.isPush /\ ~e.isPush
    IN  /\ projectP.state = "rejected" <=> valid = {}
        /\ valid # {} =>
             \E e \in valid :
               /\ e.project = projectP.value
               /\ \A f \in valid : ~Precedes(f, e)

\* C12 witness: the URL of origin does not parse, aremote has the URL of
\* foo/bar, and foo/bar is returned.
C12_Witness ==
  /\ Resolved
  /\ repoConfig =
       <<[key |-> RemoteKey(S_origin, S_url), value |-> S_bad_invalid],
         [key |-> RemoteKey(S_aremote, S_url),
          value |-> HttpsUrl(S_github_com,
                             ProjectPath(S_foo, S_bar \o S_dot_git))]>>
  /\ projectP.state = "fulfilled"
  /\ projectP.value = <<S_foo, S_bar>>

\* C13: a failed lookup of the current branch is not propagated and counts
\* as no branch: the promise of tryGetBranch never rejects, getProjectName
\* on a configuration that was read fails only if no entry is valid, and
\* after a failed lookup its result is the one of the trial order without a
\* branch remote (preference list, name, pushurl before url), whatever
\* branch.<name>.remote entries the configuration holds: the project of the
\* first valid entry, or the failure to determine a project.
C13_BranchLookupFailureSwallowed ==
  LET valid == SpecValidEntries
      Precedes(f, e) ==
        \/ SpecListRank(f.name) < SpecListRank(e.name)
        \/ /\ SpecListRank(f.name) = SpecListRank(e.name)
           /\ f.name # e.name
           /\ StrLess(f.name, e.name)
        \/ f.name = e.name /\ f.isPush /\ ~e.isPush
  IN  /\ branchP.state # "rejected"
      /\ (configP.state = "fulfilled" /\ projectP.state = "rejected")
           => valid = {}
      /\ (Resolved /\ branchP.value = Undefined) =>
           IF valid = {} THEN projectP = NoProjectError
           ELSE /\ projectP.state = "fulfilled"
                /\ \E e \in valid :
                     /\ e.project = projectP.value
                     /\ \A f \in valid : ~Precedes(f, e)

\* C13 witness: the configuration names remote1 as the remote of main and
\* declares origin, upstream and remote1, the lookup of the branch failed,
\* and the project of upstream is returned.
C13_Witness ==
  /\ Resolved
  /\ branchP.value = Undefined
  /\ repoConfig =
       <<[key |-> S_branch_dot \o S_main \o S_dot_remote, value |-> S_remote1]>>
       \o OrderConfigOf(<<<<S_origin, S_url>>, <<S_upstream, S_url>>,
                          <<S_remote1, S_url>>>>)
  /\ projectP.state = "fulfilled"
  /\ projectP.value = <<S_upstream, S_url>>

\* C14: fetchCiStatus is called only once the project and the commit are
\* both resolved, whichever settles first; once one of the two has failed,
\* fetchCiStatus is not called, nothing is written to stdout and no exit
\* code is returned, and githubCiStatus rejects.
C14_FetchAfterBothResolved ==
  /\ [](fetchPc # "idle" =>
          projectP.state = "fulfilled" /\ commitP.state = "fulfilled")
  /\ []((projectP.state = "rejected" \/ commitP.state = "rejected") =>
          /\ fetchPc = "idle"
          /\ fetchCount = 0
          /\ stdout = << >>
          /\ ciP.state # "fulfilled"
          /\ ciP.exitCode = Undefined)
  /\ (projectP.state = "rejected" \/ commitP.state = "rejected")
       ~> (ciP.state = "rejected")

\* C14 witness: the project was determined and the commit could not be
\* resolved; githubCiStatus rejected without a fetch and without output.
C14_Witness ==
  /\ projectP.state = "fulfilled"
  /\ commitP.state = "rejected"
  /\ ciP.state = "rejected"
  /\ fetchPc = "idle"
  /\ fetchCount = 0
  /\ stdout = << >>

\* The answers of the last pair of requests aggregate to pending.
LastPairPending ==
  SpecHighest({combinedStatus.statuses[i].state :
                 i \in 1..Len(combinedStatus.statuses)}
              \cup {IF checksList.check_runs[i].status = "completed"
                      THEN checksList.check_runs[i].conclusion
                      ELSE "pending" :
                    i \in 1..Len(checksList.check_runs)}) = "pending"

\* C15: with a wait that is not 0, a pair of requests is issued after the
\* first only when the answers of the pair before it are both in and have
\* been found pending; once both answers of a pair are in and do not
\* aggregate to pending, no further pair is issued and these answers are
\* what is returned; and with an unbounded wait, data that aggregates to
\* pending is never returned and a poll that was scheduled is followed by a
\* new pair of requests.
C15_SequentialPollingUntilNotPending ==
  /\ [][(~SpecWaitAbsent /\ fetchCount >= 1 /\ fetchCount' > fetchCount) =>
          /\ fetchCount' = fetchCount + 1
          /\ statusReq = "done" /\ checksReq = "done"
          /\ fetchPc = "sleeping"
          /\ LastPairPending]_vars
  /\ [][(~SpecWaitAbsent /\ statusReq = "done" /\ checksReq = "done"
         /\ ~LastPairPending) =>
          /\ fetchCount' = fetchCount
          /\ fetchPc' # "sleeping"
          /\ UNCHANGED <<combinedStatus, checksList>>]_vars
  /\ []((~SpecWaitAbsent /\ Returned) =>
          fetchP.value = <<combinedStatus, checksList>>)
  /\ []((options.wait.kind = "Infinity" /\ Returned) => ~ReturnedPending)
  /\ [][(options.wait.kind = "Infinity" /\ fetchPc = "sleeping"
         /\ fetchPc' # "sleeping") =>
          fetchPc' = "fetching" /\ fetchCount' = fetchCount + 1]_vars

\* C15 witness: an unbounded wait polled again while the feeds were pending
\* and returned the answers of the first pair that was not.
C15_Witness ==
  /\ options.wait.kind = "Infinity"
  /\ Returned
  /\ fetchCount >= 2
  /\ ~ReturnedPending
  /\ fetchP.value = <<combinedStatus, checksList>>

\* C16: when a check run of the data fetched is not completed, or a status
\* or the conclusion of a completed run is pending or of a higher severity,
\* the exit code githubCiStatus returns is 1 or 2; and it returns 0 only if
\* a status or a conclusion is neutral or success, every run is completed
\* and no status or conclusion is of a severity above success.
C16_NoSuccessWhileUnfinished ==
  ciP.state = "fulfilled" =>
    LET native == fetchP.value[1].statuses
        runs == fetchP.value[2].check_runs
        unfinished == \E i \in 1..Len(runs) : runs[i].status # "completed"
        reported == {native[i].state : i \in 1..Len(native)}
                    \cup {runs[i].conclusion :
                            i \in {j \in 1..Len(runs) :
                                     runs[j].status = "completed"}}
        higher == {st \in reported \cap DOMAIN SpecSeverity :
                     SpecSeverity[st] >= SpecSeverity["pending"]}
    IN  /\ (unfinished \/ higher # {}) => ciP.exitCode \in {Some(1), Some(2)}
        /\ ciP.exitCode = Some(0) =>
             /\ reported \cap {"neutral", "success"} # {}
             /\ ~unfinished
             /\ higher = {}

\* C16 witness: the only status is success and the only check run is in
\* progress; the exit code is 2.
C16_Witness ==
  /\ ciP.state = "fulfilled"
  /\ StatesOf(fetchP.value[1].statuses) = <<"success">>
  /\ Len(fetchP.value[2].check_runs) = 1
  /\ fetchP.value[2].check_runs[1].status = "in_progress"
  /\ ciP.exitCode = Some(2)

=============================================================================
